---- MODULE Spec2Model ----
(***************************************************************************)
(* The texture atlas (TexturePool), the per-frame geometry builder         *)
(* (UI::upload_to_buffers), the two render paths and the event handlers of *)
(* egui_glfw_mdi, src/src/ui.rs, driven by the main loop of                *)
(* src/src/main_loop.rs through the callbacks of src/src/window.rs.        *)
(*                                                                         *)
(* Clip-rectangle coordinates are f32 in the source.  They are modelled in *)
(* half-pixel units (the integer n stands for n/2), so that f32::round is  *)
(* a real conversion; every value after rounding is a whole pixel count.   *)
(* uv scales (f32 quotients) are modelled as fractions in lowest terms.    *)
(* The integer casts of the source (usize as i32, len() as u32, ...) keep  *)
(* the value of every number that arises here (all are far below 2^31), so *)
(* they do not appear.                                                     *)
(***************************************************************************)
EXTENDS Integers, Sequences, FiniteSets, TLC

VARIABLES
    infos,          \* TexturePool.infos: TextureId -> TextureInfo
    max_width,      \* TexturePool.max_width
    max_height,     \* TexturePool.max_height
    max_depth,      \* TexturePool.max_depth
    next_layer,     \* TexturePool.next_layer
    array,          \* TexturePool.array: the last upload and whether mipmaps were regenerated after it
    screen_rect,    \* UI.input.screen_rect, its max corner <<w, h>>
    vertices,       \* contents of the UI.vertices buffer
    elements,       \* contents of the UI.elements buffer
    commands,       \* contents of the UI.commands buffer
    warnings,       \* number of warning lines printed by the most recent operation
    last_call,      \* the most recent operation: its name, arguments and return value
    panic,          \* "none", or the assertion that aborted the process
    window,         \* Window.width and Window.height, <<w, h>>
    uniforms,       \* the uniforms of UI.prog: screenSize, texLayer, uvScale
    gl_state,       \* OpenGL state: the cull-face and depth-test flags, the viewport, the scissor box
    draws,          \* the draw calls of the most recent render, each with the state it was issued in
    events,         \* UI.input.events
    mouse_pos,      \* UI.mouse_pos, <<x, y>>
    input_time,     \* UI.input.time and UI.input.predicted_dt
    running,        \* MainLoop.running
    should_close,   \* the close flag of the window, read by glfwWindowShouldClose
    pc,             \* where MainLoop::new and MainLoop::run stand
    polled,         \* callbacks dispatched by glfwPollEvents so far
    t,              \* t of MainLoop::run, in units of dt
    accum           \* accum of MainLoop::run, in units of dt / 2

vars == <<infos, max_width, max_height, max_depth, next_layer, array, screen_rect,
          vertices, elements, commands, warnings, last_call, panic,
          window, uniforms, gl_state, draws, events, mouse_pos, input_time,
          running, should_close, pc, polled, t, accum>>

poolVars == <<infos, max_width, max_height, max_depth, next_layer, array>>

frameVars == <<vertices, elements, commands>>

\* What the window, the GL context and the UI input hold beside the pool and
\* the buffers.
uiVars == <<window, uniforms, gl_state, draws, events, mouse_pos, input_time>>

\* MainLoop.running and the locals of MainLoop::run.
loopVars == <<running, should_close, pc, polled, t, accum>>

----------------------------------------------------------------------------
(* Bounds of the model. *)

\* Registrations are explored while next_layer is below this cap.
MaxNextLayer == 4

\* In SpecFrame, registrations before the frame is built are explored while
\* next_layer is below this cap.
MaxSetupLayers == 2

\* The longest primitive list handed to upload_to_buffers.
MaxMeshes == 3

\* The most texture deltas of one rendered frame.
MaxDeltas == 1

\* The longest primitive list of one rendered frame.
MaxRenderMeshes == 2

\* In SpecLoop, callbacks are dispatched while fewer than this many have been.
MaxEvents == 2

\* In SpecLoop, fixed-step updates are explored while t is below this cap.
MaxTime == 2

----------------------------------------------------------------------------
(* Values. *)

None == [none |-> TRUE]

\* egui::TextureId, the two variants.
User(n) == <<"User", n>>

Managed(n) == <<"Managed", n>>

Max(a, b) == IF a >= b THEN a ELSE b

\* i32::ilog2 of a positive integer.
RECURSIVE ILog2(_)
ILog2(n) == IF n <= 1 THEN 0 ELSE 1 + ILog2(n \div 2)

RECURSIVE Gcd(_, _)
Gcd(a, b) == IF b = 0 THEN a ELSE Gcd(b, a % b)

\* The f32 quotient a / b of two non-negative whole numbers, b > 0, as the
\* fraction <<numerator, denominator>> in lowest terms.
F32Div(a, b) == LET g == Gcd(a, b) IN <<a \div g, b \div g>>

\* HashMap::insert: the entry for k is created or overwritten.
Put(m, k, v) == [x \in (DOMAIN m) \cup {k} |-> IF x = k THEN v ELSE m[x]]

EmptyMap == [x \in {} |-> None]

\* TextureInfo::new
TextureInfoNew(layer, width, height) == [layer |-> layer, width |-> width, height |-> height]

\* TextureArray::upload(x, y, layer, w, h, ..) as seen at its call sites: the
\* written region is recorded, and mipmaps are stale until regenerated.
Upload(x, y, layer, w, h) ==
    [x |-> x, y |-> y, layer |-> layer, w |-> w, h |-> h, mipmaps |-> FALSE]

\* TextureArray::generate_mipmaps
GenerateMipmaps(a) == [a EXCEPT !.mipmaps = TRUE]

\* An ImageDelta with its texture id: an image of size w * h holding npix
\* pixels, at position pos (None: the whole image).
Delta(id, w, h, pos, npix) == [id |-> id, w |-> w, h |-> h, pos |-> pos, npix |-> npix]

NoUpload == [x |-> 0, y |-> 0, layer |-> -1, w |-> 0, h |-> 0, mipmaps |-> TRUE]

NoCall ==
    [op |-> "new", id |-> None, w |-> 0, h |-> 0, info |-> None, prims |-> <<>>, count |-> 0,
     deltas |-> <<>>, input |-> <<>>, event |-> None]

----------------------------------------------------------------------------
(* Inputs. *)

\* What UI::new is given: (max_texture_width, max_texture_height) and the
\* framebuffer size of the window.
Configurations ==
    { [atlas |-> <<16, 16>>, window |-> <<800, 600>>],
      [atlas |-> <<4, 2>>, window |-> <<60, 40>>] }

\* Image sizes (w, h) of inserted textures and of texture deltas.
TexSizes == {<<16, 16>>, <<8, 8>>, <<4, 2>>}

\* Texture ids carried by texture deltas.
DeltaIds == {Managed(0), User(1)}

\* ImageDelta.pos: None is a full image, a position a partial update.
DeltaPositions == {None, <<1, 1>>}

\* Texture ids referenced by the meshes of a frame.
MeshIds == {User(0), User(1), Managed(0)}

\* egui::Mesh contents paired with a clip rectangle <<min.x, min.y, max.x, max.y>>
\* in half-pixel units: a triangle clipped to (-50,-50)-(100,100), and a quad
\* clipped to (90.5,70.5)-(10.5,650.5), whose x range is inverted.
Shapes ==
    { [clip_rect |-> <<-100, -100, 200, 200>>,
       vertices |-> <<11, 12, 13>>, indices |-> <<0, 1, 2>>],
      [clip_rect |-> <<181, 141, 21, 1301>>,
       vertices |-> <<21, 22, 23, 24>>, indices |-> <<0, 1, 2, 0, 2, 3>>] }

\* egui::ClippedPrimitive holding Primitive::Mesh
MeshPrimitive(shape, id) ==
    [kind |-> "Mesh", clip_rect |-> shape.clip_rect, texture_id |-> id,
     vertices |-> shape.vertices, indices |-> shape.indices]

\* egui::ClippedPrimitive holding Primitive::Callback
CallbackPrimitive ==
    [kind |-> "Callback", clip_rect |-> <<0, 0, 0, 0>>, texture_id |-> None,
     vertices |-> <<>>, indices |-> <<>>]

Primitives == {MeshPrimitive(s, id) : s \in Shapes, id \in MeshIds} \cup {CallbackPrimitive}

\* The primitive lists a frame can hold.
PrimitiveLists == UNION {[1..n -> Primitives] : n \in 0..MaxMeshes}

\* Registrations explored ahead of a frame in SpecFrame.
FrameTexSizes == {<<16, 16>>, <<8, 8>>}

FrameDeltas == {[id |-> Managed(0), w |-> 8, h |-> 4]}

\* Texture deltas of a rendered frame: the font image in full, and a
\* repainted region of it.
RenderDeltas == {[id |-> Managed(0), w |-> 8, h |-> 4, pos |-> None, npix |-> 32],
                 [id |-> Managed(0), w |-> 2, h |-> 2, pos |-> <<1, 1>>, npix |-> 4]}

RenderDeltaLists == UNION {[1..n -> RenderDeltas] : n \in 0..MaxDeltas}

\* Image sizes (w, h) of the textures inserted ahead of a rendered frame.
RenderTexSizes == {<<4, 2>>}

\* Primitives of a rendered frame.
RenderMeshIds == {User(0), Managed(0)}

RenderPrimitives ==
    {MeshPrimitive(s, id) : s \in Shapes, id \in RenderMeshIds} \cup {CallbackPrimitive}

RenderPrimitiveLists == UNION {[1..n -> RenderPrimitives] : n \in 0..MaxRenderMeshes}

\* What MainLoop::new passes to Window::new and UI::new.
ProgramConfiguration == [atlas |-> <<16384, 256>>, window |-> <<1024, 768>>]

\* The sizes of the textures MainLoop::new inserts: missing(64, 3), xor(),
\* rgb_slice().
ProgramTextures == << <<64, 64>>, <<256, 256>>, <<256, 256>> >>

\* Arguments of the GLFW callbacks: (key, action), framebuffer sizes, cursor
\* positions, (button, action), scroll offsets.
KeyInputs == {<<"Escape", "PRESS">>, <<"Escape", "RELEASE">>, <<"A", "PRESS">>}

FramebufferSizes == {<<640, 480>>, <<1280, 720>>}

CursorPositions == {<<10, 20>>}

ButtonInputs == {<<1, "PRESS">>, <<0, "RELEASE">>, <<0, "REPEAT">>}

ScrollOffsets == {<<0, 1>>}

\* Time between two iterations of the loop of MainLoop::run, in units of
\* dt / 2.
ElapsedTimes == {1, 3}

\* What ctx.run and ctx.tessellate give for a frame of the main loop: nothing,
\* or the font image and a mesh on it.
LoopFrames ==
    {[deltas |-> <<>>, prims |-> <<>>]} \cup
    {[deltas |-> <<Delta(Managed(0), 8, 4, None, 32)>>,
      prims |-> <<MeshPrimitive(s, Managed(0))>>] : s \in Shapes}

----------------------------------------------------------------------------
(* TexturePool. *)

\* TexturePool::new: max_depth from the larger side.
MaxDepthOf(w, h) == ILog2(Max(w, h)) + 1

\* TexturePool::fetch
FetchIn(m, id) == IF id \in DOMAIN m THEN m[id] ELSE None

\* TexturePool::fetch on the records of the current state.
Fetch(id) == FetchIn(infos, id)

\* TexturePool::fetch_or_add on the pool (m, nl): the pool after the call and
\* the returned record.
FetchOrAddIn(m, nl, id, w, h) ==
    IF id \in DOMAIN m
    THEN [infos |-> m, next_layer |-> nl, info |-> m[id]]
    ELSE LET info == TextureInfoNew(nl, w, h) IN
         [infos |-> Put(m, id, info), next_layer |-> nl + 1, info |-> info]

\* TexturePool::fetch_or_add on the pool of the current state.
FetchOrAdd(id, w, h) == FetchOrAddIn(infos, next_layer, id, w, h)

\* TexturePool::insert(w, h, pixels); missing, xor and rgb_slice call it.
Insert(w, h) ==
    /\ panic = "none"
    /\ warnings' = 0
    /\ UNCHANGED <<max_width, max_height, max_depth, screen_rect, frameVars>>
    /\ IF ~(w <= max_width /\ h <= max_height)
       THEN /\ panic' = "insert: size"
            /\ last_call' = [NoCall EXCEPT !.op = "insert", !.w = w, !.h = h]
            /\ UNCHANGED <<infos, next_layer, array>>
       ELSE IF ~(next_layer < max_depth)
       THEN /\ panic' = "insert: capacity"
            /\ last_call' = [NoCall EXCEPT !.op = "insert", !.w = w, !.h = h]
            /\ UNCHANGED <<infos, next_layer, array>>
       ELSE LET id == User(next_layer)
                info == TextureInfoNew(next_layer, w, h)
            IN  /\ array' = Upload(0, 0, next_layer, w, h)
                /\ infos' = Put(infos, id, info)
                /\ next_layer' = next_layer + 1
                /\ last_call' = [NoCall EXCEPT !.op = "insert", !.w = w, !.h = h,
                                               !.id = id, !.info = info]
                /\ UNCHANGED panic

\* The body of UI::update_texture on the pool (pool.infos, pool.next_layer,
\* pool.array), pool.warnings counting the warnings printed so far: the pool
\* after the call and the record fetch_or_add returned.
UpdateTextureIn(pool, d) ==
    LET xy == IF d.pos = None THEN <<0, 0>> ELSE d.pos
        r == FetchOrAddIn(pool.infos, pool.next_layer, d.id, d.w, d.h)
    IN  [infos |-> r.infos,
         next_layer |-> r.next_layer,
         array |-> GenerateMipmaps(Upload(xy[1], xy[2], r.info.layer, d.w, d.h)),
         warnings |-> pool.warnings + (IF d.npix # d.w * d.h THEN 1 ELSE 0),
         info |-> r.info]

\* The pool of the current state, no warning printed yet.
Pool == [infos |-> infos, next_layer |-> next_layer, array |-> array, warnings |-> 0,
         info |-> None]

\* UI::update_texture(id, delta), delta an image of size w * h holding npix
\* pixels, at position pos (None: the whole image).
UpdateTexture(id, w, h, pos, npix) ==
    /\ panic = "none"
    /\ LET r == UpdateTextureIn(Pool, Delta(id, w, h, pos, npix))
       IN  /\ infos' = r.infos
           /\ next_layer' = r.next_layer
           /\ warnings' = r.warnings
           /\ array' = r.array
           /\ last_call' = [NoCall EXCEPT !.op = "update_texture", !.w = w, !.h = h,
                                          !.id = id, !.info = r.info]
    /\ UNCHANGED <<max_width, max_height, max_depth, screen_rect, frameVars, panic>>

----------------------------------------------------------------------------
(* UI::upload_to_buffers. *)

\* f32::round of a coordinate in half-pixel units: to the nearest whole
\* pixel, halves away from zero.
Round(v) ==
    IF v % 2 = 0 THEN v \div 2
    ELSE IF v > 0 THEN (v + 1) \div 2 ELSE (v - 1) \div 2

\* f32::clamp(lo, hi); every call below has lo <= hi.
Clamp(x, lo, hi) == IF x < lo THEN lo ELSE IF x > hi THEN hi ELSE x

\* clip_min_x, clip_min_y
ClipMin(v, size) == Clamp(Round(v), 0, size)

\* ClipMax with the lower bound 0 in place of the clamped minimum.
ClipMaxFromZero(v, clip_min, size) == Clamp(Round(v), 0, size)

\* clip_max_x, clip_max_y
ClipMax(v, clip_min, size) == Clamp(Round(v), clip_min, size)

\* ScissorY without the flip.
ScissorYTopLeft(height, clip_max_y) == clip_max_y

\* scissor_y: the flip to a bottom-left origin
ScissorY(height, clip_max_y) == height - clip_max_y

\* UvScale with the quotient inverted.
UvScaleInverted(size, max_size) == F32Div(max_size, size)

\* uv_scale_x, uv_scale_y
UvScale(size, max_size) == F32Div(size, max_size)

\* first_index
FirstIndex(elts) == Len(elts)

\* BaseVertex that forgets the vertices already in the buffer.
BaseVertexZero(verts) == 0

\* base_vertex
BaseVertex(verts) == Len(verts)

\* The DrawElementsCmd of one mesh.
DrawElementsCmd(mesh, info, verts, elts, width, height) ==
    LET rect == mesh.clip_rect
        clip_min_x == ClipMin(rect[1], width)
        clip_min_y == ClipMin(rect[2], height)
        clip_max_x == ClipMax(rect[3], clip_min_x, width)
        clip_max_y == ClipMax(rect[4], clip_min_y, height)
    IN  [count |-> Len(mesh.indices),
         instance_count |-> 1,
         first_index |-> FirstIndex(elts),
         base_vertex |-> BaseVertex(verts),
         texture_layer |-> info.layer,
         uv_scale_x |-> UvScale(info.width, max_width),
         uv_scale_y |-> UvScale(info.height, max_height),
         scissor_x |-> clip_min_x,
         scissor_y |-> ScissorY(height, clip_max_y),
         scissor_w |-> clip_max_x - clip_min_x,
         scissor_h |-> clip_max_y - clip_min_y]

\* UnknownTexture with the mesh's vertices appended before the lookup.
UnknownTextureKeepsVertices(acc, mesh) ==
    [acc EXCEPT !.warnings = @ + 1, !.vertices = @ \o mesh.vertices]

\* A mesh whose texture id has no record: a warning is printed and the loop
\* continues with the next primitive.
UnknownTexture(acc, mesh) == [acc EXCEPT !.warnings = @ + 1]

\* One iteration of the loop over clip_primitives, m the records of the pool.
ProcessPrimitive(m, acc, prim, width, height) ==
    IF prim.kind # "Mesh" THEN acc
    ELSE LET info == FetchIn(m, prim.texture_id) IN
         IF info = None THEN UnknownTexture(acc, prim)
         ELSE [acc EXCEPT
                 !.vertices = @ \o prim.vertices,
                 !.elements = @ \o prim.indices,
                 !.commands = Append(@, DrawElementsCmd(prim, info, acc.vertices,
                                                        acc.elements, width, height))]

\* The loop over clip_primitives, from the i-th on.
RECURSIVE BuildFrame(_, _, _, _, _, _)
BuildFrame(m, prims, i, acc, width, height) ==
    IF i > Len(prims) THEN acc
    ELSE BuildFrame(m, prims, i + 1, ProcessPrimitive(m, acc, prims[i], width, height),
                    width, height)

EmptyFrame == [vertices |-> <<>>, elements |-> <<>>, commands |-> <<>>, warnings |-> 0]

\* UI::window_size
WindowSize == screen_rect

\* UI::upload_to_buffers(clip_primitives)
UploadToBuffers(clip_primitives) ==
    /\ panic = "none"
    /\ LET size == WindowSize
           frame == BuildFrame(infos, clip_primitives, 1, EmptyFrame, size[1], size[2])
       IN  /\ vertices' = frame.vertices
           /\ elements' = frame.elements
           /\ commands' = frame.commands
           /\ warnings' = frame.warnings
           /\ last_call' = [NoCall EXCEPT !.op = "upload_to_buffers",
                                          !.prims = clip_primitives,
                                          !.count = Len(frame.commands)]
    /\ UNCHANGED <<poolVars, screen_rect, panic>>

----------------------------------------------------------------------------
(* UI::render_mdi and UI::render_simple. *)

\* ApplyDeltas that applies none of the deltas.
ApplyDeltasSkipped(deltas, i, pool) == pool

\* The loop over output.textures_delta.set, from the i-th delta on.
RECURSIVE ApplyDeltas(_, _, _)
ApplyDeltas(deltas, i, pool) ==
    IF i > Len(deltas) THEN pool
    ELSE ApplyDeltas(deltas, i + 1, UpdateTextureIn(pool, deltas[i]))

\* init_gl: gl::Enable(DEPTH_TEST); gl::Enable(CULL_FACE)
InitGl(g) == [g EXCEPT !.depth_test = TRUE, !.cull_face = TRUE]

\* gl::Disable(CULL_FACE); gl::Disable(DEPTH_TEST)
DisableBatchFlags(g) == [g EXCEPT !.cull_face = FALSE, !.depth_test = FALSE]

\* gl::Enable(CULL_FACE); gl::Enable(DEPTH_TEST)
EnableBatchFlags(g) == [g EXCEPT !.cull_face = TRUE, !.depth_test = TRUE]

\* CommandCount that counts the indices of the frame.
CommandCountOfElements(frame) == Len(frame.elements)

\* command_count, the return value of upload_to_buffers
CommandCount(frame) == Len(frame.commands)

\* gl::MultiDrawElementsIndirect(TRIANGLES, UNSIGNED_INT, null, command_count,
\* stride), with the buffers and the flags the call is issued with.
MultiDrawElementsIndirect(command_count, frame, g) ==
    [call |-> "MultiDrawElementsIndirect", drawcount |-> command_count,
     vertices |-> frame.vertices, elements |-> frame.elements, commands |-> frame.commands,
     cull_face |-> g.cull_face, depth_test |-> g.depth_test]

\* UI::render_mdi(ui): ctx.run is handed the input and gives the texture
\* deltas and, through tessellate, the clipped primitives of the frame.
RenderMdi(deltas, clip_primitives) ==
    /\ panic = "none"
    /\ UNCHANGED <<max_width, max_height, max_depth, screen_rect, panic,
                   window, uniforms, mouse_pos, input_time>>
    /\ LET pool == ApplyDeltas(deltas, 1, Pool)
       IN  /\ infos' = pool.infos
           /\ next_layer' = pool.next_layer
           /\ array' = pool.array
           /\ LET frame == BuildFrame(pool.infos, clip_primitives, 1, EmptyFrame,
                                      WindowSize[1], WindowSize[2])
                  command_count == CommandCount(frame)
              IN  /\ vertices' = frame.vertices
                  /\ elements' = frame.elements
                  /\ commands' = frame.commands
                  /\ warnings' = pool.warnings + frame.warnings
                  /\ draws' = <<MultiDrawElementsIndirect(command_count, frame,
                                                          DisableBatchFlags(gl_state))>>
                  /\ last_call' = [NoCall EXCEPT !.op = "render_mdi",
                                                 !.deltas = deltas,
                                                 !.prims = clip_primitives,
                                                 !.count = command_count,
                                                 !.input = events]
    /\ gl_state' = EnableBatchFlags(DisableBatchFlags(gl_state))
    /\ events' = <<>>

\* SetClipRect measuring y from the top edge.
SetClipRectTopLeft(rect, width, height) ==
    LET clip_min_x == Clamp(Round(rect[1]), 0, width)
        clip_min_y == Clamp(Round(rect[2]), 0, height)
        clip_max_x == Clamp(Round(rect[3]), clip_min_x, width)
        clip_max_y == Clamp(Round(rect[4]), clip_min_y, height)
    IN  <<clip_min_x, clip_min_y, clip_max_x - clip_min_x, clip_max_y - clip_min_y>>

\* set_clip_rect(rect, width, height): the box handed to gl::Scissor,
\* <<x, y, w, h>>.
SetClipRect(rect, width, height) ==
    LET clip_min_x == Clamp(Round(rect[1]), 0, width)
        clip_min_y == Clamp(Round(rect[2]), 0, height)
        clip_max_x == Clamp(Round(rect[3]), clip_min_x, width)
        clip_max_y == Clamp(Round(rect[4]), clip_min_y, height)
    IN  <<clip_min_x, height - clip_max_y, clip_max_x - clip_min_x, clip_max_y - clip_min_y>>

\* gl::DrawElements(TRIANGLES, count, UNSIGNED_INT, null), with the uniforms,
\* the scissor box and the buffers the call is issued with.
DrawElements(count, acc) ==
    [call |-> "DrawElements", count |-> count,
     texLayer |-> acc.texLayer, uvScale |-> acc.uvScale, scissor |-> acc.scissor,
     vertices |-> acc.vertices, elements |-> acc.elements]

\* UI::render_mesh(mesh), m the records of the pool; acc holds the uniforms,
\* the scissor box, the two buffers, the draw calls and the warnings so far.
RenderMesh(m, acc, mesh) ==
    LET info == FetchIn(m, mesh.texture_id) IN
    IF info = None THEN [acc EXCEPT !.warnings = @ + 1]
    ELSE LET scale_x == F32Div(info.width, max_width)
             scale_y == F32Div(info.height, max_height)
             set == [acc EXCEPT !.texLayer = info.layer,
                                !.uvScale = <<scale_x, scale_y>>,
                                !.vertices = mesh.vertices,
                                !.elements = mesh.indices]
         IN  [set EXCEPT !.draws = Append(@, DrawElements(Len(mesh.indices), set))]

\* One iteration of the loop of render_simple over clip_primitives.
SimplePrimitive(m, acc, prim, width, height) ==
    LET clipped == [acc EXCEPT !.scissor = SetClipRect(prim.clip_rect, width, height)] IN
    IF prim.kind = "Mesh" THEN RenderMesh(m, clipped, prim) ELSE clipped

\* The loop of render_simple over clip_primitives, from the i-th on.
RECURSIVE SimpleLoop(_, _, _, _, _, _)
SimpleLoop(m, prims, i, acc, width, height) ==
    IF i > Len(prims) THEN acc
    ELSE SimpleLoop(m, prims, i + 1, SimplePrimitive(m, acc, prims[i], width, height),
                    width, height)

\* UI::render_simple(ui)
RenderSimple(deltas, clip_primitives) ==
    /\ panic = "none"
    /\ UNCHANGED <<max_width, max_height, max_depth, screen_rect, panic,
                   window, mouse_pos, input_time, commands>>
    /\ LET pool == ApplyDeltas(deltas, 1, Pool)
           before == [scissor |-> gl_state.scissor, texLayer |-> uniforms.texLayer,
                      uvScale |-> uniforms.uvScale, vertices |-> vertices,
                      elements |-> elements, draws |-> <<>>, warnings |-> pool.warnings]
           done == SimpleLoop(pool.infos, clip_primitives, 1, before,
                              WindowSize[1], WindowSize[2])
       IN  /\ infos' = pool.infos
           /\ next_layer' = pool.next_layer
           /\ array' = pool.array
           /\ vertices' = done.vertices
           /\ elements' = done.elements
           /\ uniforms' = [uniforms EXCEPT !.texLayer = done.texLayer,
                                           !.uvScale = done.uvScale]
           /\ gl_state' = [EnableBatchFlags(DisableBatchFlags(gl_state)) EXCEPT
                             !.scissor = done.scissor]
           /\ warnings' = done.warnings
           /\ draws' = done.draws
           /\ last_call' = [NoCall EXCEPT !.op = "render_simple",
                                          !.deltas = deltas,
                                          !.prims = clip_primitives,
                                          !.count = Len(done.draws),
                                          !.input = events]
    /\ events' = <<>>

----------------------------------------------------------------------------
(* Events: the callbacks of window.rs, MainLoop::handle_event and            *)
(* UI::handle_event.  Cursor positions and scroll offsets are whole numbers, *)
(* which the casts f64 as f32 and u32 as f32 keep as they are.               *)

\* enum Event of main_loop.rs
KeyPress(key) == [kind |-> "KeyPress", key |-> key]

KeyRelease(key) == [kind |-> "KeyRelease", key |-> key]

WindowResize(w, h) == [kind |-> "WindowResize", w |-> w, h |-> h]

MouseMove(x, y) == [kind |-> "MouseMove", x |-> x, y |-> y]

MousePress(btn) == [kind |-> "MousePress", btn |-> btn]

MouseRelease(btn) == [kind |-> "MouseRelease", btn |-> btn]

MouseScroll(x, y) == [kind |-> "MouseScroll", x |-> x, y |-> y]

\* egui::Event, the three variants pushed by UI::handle_event
PointerMoved(pos) == [kind |-> "PointerMoved", pos |-> pos]

MouseWheel(x, y) == [kind |-> "MouseWheel", unit |-> "Line", delta |-> <<x, y>>]

PointerButton(pos, button, pressed) ==
    [kind |-> "PointerButton", pos |-> pos, button |-> button, pressed |-> pressed]

\* egui_mouse_button
egui_mouse_button(raw) ==
    CASE raw = 2 -> "Secondary"
      [] raw = 3 -> "Middle"
      [] raw = 4 -> "Extra1"
      [] raw = 5 -> "Extra2"
      [] OTHER -> "Primary"

\* ScreenRect with the two sides exchanged.
ScreenRectTransposed(w, h) == <<0 + h, 0 + w>>

\* screen_rect(w, h): the max corner of the rectangle from (0, 0) of size (w, h)
ScreenRect(w, h) == <<0 + w, 0 + h>>

\* Window::set_viewport
SetViewport(g, size) == [g EXCEPT !.viewport = <<0, 0, size[1], size[2]>>]

\* PushedEvents that pushes a pointer move ahead of the queued events.
PushedEventsInFront(event, pos) ==
    CASE event.kind = "MouseMove" -> <<PointerMoved(<<event.x, event.y>>)>> \o events
      [] event.kind = "MouseScroll" -> Append(events, MouseWheel(event.x, event.y))
      [] event.kind = "MousePress" ->
            Append(events, PointerButton(pos, egui_mouse_button(event.btn), TRUE))
      [] event.kind = "MouseRelease" ->
            Append(events, PointerButton(pos, egui_mouse_button(event.btn), FALSE))
      [] OTHER -> events

\* UI.input.events after UI::handle_event(event), pos being UI.mouse_pos
\* (mouse_press_event for the two button events).
PushedEvents(event, pos) ==
    CASE event.kind = "MouseMove" -> Append(events, PointerMoved(<<event.x, event.y>>))
      [] event.kind = "MouseScroll" -> Append(events, MouseWheel(event.x, event.y))
      [] event.kind = "MousePress" ->
            Append(events, PointerButton(pos, egui_mouse_button(event.btn), TRUE))
      [] event.kind = "MouseRelease" ->
            Append(events, PointerButton(pos, egui_mouse_button(event.btn), FALSE))
      [] OTHER -> events

\* UI::handle_event(event)
UIHandleEvent(event) ==
    /\ screen_rect' = IF event.kind = "WindowResize"
                      THEN ScreenRect(event.w, event.h) ELSE screen_rect
    /\ uniforms' = IF event.kind = "WindowResize"
                   THEN [uniforms EXCEPT !.screenSize = <<event.w, event.h>>] ELSE uniforms
    /\ mouse_pos' = IF event.kind = "MouseMove" THEN <<event.x, event.y>> ELSE mouse_pos
    /\ events' = PushedEvents(event, mouse_pos)

\* MainLoop::handle_event(event), called from a callback; set_viewport reads
\* the Window as the callback has left it.
HandleEvent(event) ==
    /\ running' = IF event.kind = "KeyPress" /\ event.key = "Escape" THEN FALSE ELSE running
    /\ gl_state' = IF event.kind = "WindowResize"
                   THEN SetViewport(gl_state, window') ELSE gl_state
    /\ UIHandleEvent(event)
    /\ warnings' = 0
    /\ last_call' = [NoCall EXCEPT !.op = "handle_event", !.event = event]
    /\ UNCHANGED <<poolVars, frameVars, panic, draws, input_time>>

\* A callback whose action is neither press nor release: no handler is called.
Ignored ==
    /\ last_call' = [NoCall EXCEPT !.op = "ignored"]
    /\ UNCHANGED <<poolVars, frameVars, screen_rect, warnings, panic,
                   uniforms, gl_state, draws, events, mouse_pos, input_time, running>>

\* key_callback(handle, code, _, action, _)
KeyCallback(code, action) ==
    /\ UNCHANGED window
    /\ IF action = "PRESS" THEN HandleEvent(KeyPress(code))
       ELSE IF action = "RELEASE" THEN HandleEvent(KeyRelease(code))
       ELSE Ignored

\* fb_size_callback(handle, w, h)
FbSizeCallback(w, h) ==
    /\ window' = <<w, h>>
    /\ HandleEvent(WindowResize(w, h))

\* mouse_pos_callback(handle, x, y)
MousePosCallback(x, y) ==
    /\ UNCHANGED window
    /\ HandleEvent(MouseMove(x, y))

\* mouse_button_callback(handle, button, action, _)
MouseButtonCallback(button, action) ==
    /\ UNCHANGED window
    /\ LET num == button + 1 IN
       IF action = "PRESS" THEN HandleEvent(MousePress(num))
       ELSE IF action = "RELEASE" THEN HandleEvent(MouseRelease(num))
       ELSE Ignored

\* mouse_scroll_callback(handle, x, y)
MouseScrollCallback(x, y) ==
    /\ UNCHANGED window
    /\ HandleEvent(MouseScroll(x, y))

\* UI::update(t, dt)
Update(time, dt) ==
    /\ input_time' = [time |-> time, predicted_dt |-> dt]
    /\ warnings' = 0
    /\ last_call' = [NoCall EXCEPT !.op = "update"]
    /\ UNCHANGED <<poolVars, frameVars, screen_rect, panic,
                   window, uniforms, gl_state, draws, events, mouse_pos>>

----------------------------------------------------------------------------
(* Specifications. *)

\* UI::new(window, max_texture_width, max_texture_height) on a fresh GL
\* context, whose cull-face and depth-test flags are off and whose viewport
\* and scissor box are the window; MainLoop.running starts true.
InitUI(c) ==
    /\ max_width = c.atlas[1]
    /\ max_height = c.atlas[2]
    /\ max_depth = MaxDepthOf(c.atlas[1], c.atlas[2])
    /\ screen_rect = c.window
    /\ window = c.window
    /\ uniforms = [screenSize |-> c.window, texLayer |-> 0,
                   uvScale |-> <<F32Div(0, 1), F32Div(0, 1)>>]
    /\ gl_state = [cull_face |-> FALSE, depth_test |-> FALSE,
                   viewport |-> <<0, 0, c.window[1], c.window[2]>>,
                   scissor |-> <<0, 0, c.window[1], c.window[2]>>]
    /\ infos = EmptyMap
    /\ next_layer = 0
    /\ array = NoUpload
    /\ vertices = <<>>
    /\ elements = <<>>
    /\ commands = <<>>
    /\ warnings = 0
    /\ last_call = NoCall
    /\ panic = "none"
    /\ draws = <<>>
    /\ events = <<>>
    /\ mouse_pos = <<0, 0>>
    /\ input_time = [time |-> 0, predicted_dt |-> "default"]
    /\ running = TRUE
    /\ should_close = FALSE
    /\ pc = "new"
    /\ polled = 0
    /\ t = 0
    /\ accum = 0

Init == \E c \in Configurations : InitUI(c)

AtlasInsert ==
    /\ next_layer < MaxNextLayer
    /\ \E s \in TexSizes : Insert(s[1], s[2])
    /\ UNCHANGED <<uiVars, loopVars>>

AtlasUpdateTexture ==
    /\ next_layer < MaxNextLayer
    /\ \E id \in DeltaIds, s \in TexSizes, pos \in DeltaPositions, short \in BOOLEAN :
          UpdateTexture(id, s[1], s[2], pos, IF short THEN 0 ELSE s[1] * s[2])
    /\ UNCHANGED <<uiVars, loopVars>>

NextAtlas == AtlasInsert \/ AtlasUpdateTexture

SpecAtlas == Init /\ [][NextAtlas]_vars

\* One frame built by upload_to_buffers, which reads the pool and the window
\* size and keeps nothing from an earlier frame, after the registrations that
\* lead to the pool it reads.
FrameInsert ==
    /\ last_call.op # "upload_to_buffers"
    /\ next_layer < MaxSetupLayers
    /\ \E s \in FrameTexSizes : Insert(s[1], s[2])
    /\ UNCHANGED <<uiVars, loopVars>>

FrameUpdateTexture ==
    /\ last_call.op # "upload_to_buffers"
    /\ next_layer < MaxSetupLayers
    /\ \E d \in FrameDeltas : UpdateTexture(d.id, d.w, d.h, None, d.w * d.h)
    /\ UNCHANGED <<uiVars, loopVars>>

FrameBuild ==
    /\ last_call.op # "upload_to_buffers"
    /\ \E prims \in PrimitiveLists : UploadToBuffers(prims)
    /\ UNCHANGED <<uiVars, loopVars>>

NextFrame == FrameInsert \/ FrameUpdateTexture \/ FrameBuild

SpecFrame == Init /\ [][NextFrame]_vars

\* One frame rendered by UI::render (render_mdi), after the insertions that
\* lead to the pool it reads, with or without init_gl called first; then
\* the same frame rendered by render_simple.
RenderInsert ==
    /\ last_call.op \notin {"render_mdi", "render_simple"}
    /\ next_layer < MaxSetupLayers
    /\ \E s \in RenderTexSizes : Insert(s[1], s[2])
    /\ UNCHANGED <<uiVars, loopVars>>

RenderInitGl ==
    /\ last_call.op \notin {"render_mdi", "render_simple"}
    /\ gl_state' = InitGl(gl_state)
    /\ UNCHANGED <<poolVars, frameVars, screen_rect, warnings, last_call, panic,
                   window, uniforms, draws, events, mouse_pos, input_time, loopVars>>

RenderFrameMdi ==
    /\ last_call.op \notin {"render_mdi", "render_simple"}
    /\ \E deltas \in RenderDeltaLists, prims \in RenderPrimitiveLists :
          RenderMdi(deltas, prims)
    /\ UNCHANGED loopVars

RenderFrameSimple ==
    /\ last_call.op = "render_mdi"
    /\ \E deltas \in {last_call.deltas}, prims \in {last_call.prims} :
          RenderSimple(deltas, prims)
    /\ UNCHANGED loopVars

NextRender == RenderInsert \/ RenderInitGl \/ RenderFrameMdi \/ RenderFrameSimple

SpecRender == Init /\ [][NextRender]_vars

\* The program: MainLoop::new, then MainLoop::run.  pc is "new" while
\* MainLoop::new inserts its textures, "loop" at the test of while
\* self.running, "poll" inside glfwPollEvents, "update" at the test of while
\* accum >= dt, and "done" when run has returned.
InitLoop == InitUI(ProgramConfiguration)

\* MainLoop::new: the next of ui.textures.missing(64, 3), xor(), rgb_slice()
LoopNewTexture ==
    /\ pc = "new"
    /\ next_layer < Len(ProgramTextures)
    /\ \E s \in {ProgramTextures[next_layer + 1]} : Insert(s[1], s[2])
    /\ UNCHANGED <<uiVars, loopVars>>

\* MainLoop::init, first statement of run: the callbacks are set, then
\* set_viewport and init_gl
LoopInit ==
    /\ pc = "new"
    /\ next_layer = Len(ProgramTextures)
    /\ gl_state' = InitGl(SetViewport(gl_state, window))
    /\ pc' = "loop"
    /\ UNCHANGED <<poolVars, frameVars, screen_rect, warnings, last_call, panic,
                   window, uniforms, draws, events, mouse_pos, input_time,
                   running, should_close, polled, t, accum>>

\* LoopEnter without the test of self.running.
LoopEnterUntested ==
    /\ pc = "loop"
    /\ \E elapsed \in ElapsedTimes : accum' = accum + elapsed
    /\ pc' = "poll"
    /\ UNCHANGED <<poolVars, frameVars, screen_rect, warnings, last_call, panic,
                   uiVars, running, should_close, polled, t>>

\* while self.running, taken: accum += elapsed, and poll_events is entered
LoopEnter ==
    /\ pc = "loop"
    /\ running
    /\ \E elapsed \in ElapsedTimes : accum' = accum + elapsed
    /\ pc' = "poll"
    /\ UNCHANGED <<poolVars, frameVars, screen_rect, warnings, last_call, panic,
                   uiVars, running, should_close, polled, t>>

\* while self.running, not taken: run returns
LoopExit ==
    /\ pc = "loop"
    /\ ~running
    /\ pc' = "done"
    /\ UNCHANGED <<poolVars, frameVars, screen_rect, warnings, last_call, panic,
                   uiVars, running, should_close, polled, t, accum>>

\* glfwPollEvents dispatches one callback
Dispatch ==
    /\ pc = "poll"
    /\ polled < MaxEvents
    /\ polled' = polled + 1
    /\ UNCHANGED <<should_close, pc, t, accum>>

PollKey == Dispatch /\ \E k \in KeyInputs : KeyCallback(k[1], k[2])

PollFbSize == Dispatch /\ \E s \in FramebufferSizes : FbSizeCallback(s[1], s[2])

PollMousePos == Dispatch /\ \E p \in CursorPositions : MousePosCallback(p[1], p[2])

PollMouseButton == Dispatch /\ \E b \in ButtonInputs : MouseButtonCallback(b[1], b[2])

PollMouseScroll == Dispatch /\ \E o \in ScrollOffsets : MouseScrollCallback(o[1], o[2])

\* glfwPollEvents takes a close request: the close flag of the window is set
PollClose ==
    /\ pc = "poll"
    /\ ~should_close
    /\ should_close' = TRUE
    /\ UNCHANGED <<poolVars, frameVars, screen_rect, warnings, last_call, panic,
                   uiVars, running, pc, polled, t, accum>>

\* MainLoop::poll_events after glfwPollEvents has returned
PollEnd ==
    /\ pc = "poll"
    /\ running' = IF should_close THEN FALSE ELSE running
    /\ pc' = "update"
    /\ UNCHANGED <<poolVars, frameVars, screen_rect, warnings, last_call, panic,
                   uiVars, should_close, polled, t, accum>>

\* while accum >= dt, taken: update(t, dt); t += dt; accum -= dt
LoopUpdate ==
    /\ pc = "update"
    /\ accum >= 2
    /\ t < MaxTime
    /\ Update(t, "dt")
    /\ t' = t + 1
    /\ accum' = accum - 2
    /\ UNCHANGED <<running, should_close, pc, polled>>

\* while accum >= dt, not taken: MainLoop::render, limit_fps, mark_frame_end
LoopRender ==
    /\ pc = "update"
    /\ accum < 2
    /\ \E frame \in LoopFrames : RenderMdi(frame.deltas, frame.prims)
    /\ pc' = "loop"
    /\ UNCHANGED <<running, should_close, polled, t, accum>>

NextLoop ==
    \/ LoopNewTexture \/ LoopInit \/ LoopEnter \/ LoopExit
    \/ PollKey \/ PollFbSize \/ PollMousePos \/ PollMouseButton \/ PollMouseScroll
    \/ PollClose \/ PollEnd \/ LoopUpdate \/ LoopRender

SpecLoop == InitLoop /\ [][NextLoop]_vars

----------------------------------------------------------------------------
(* Properties of the atlas, checked under SpecAtlas. *)

\* C1: in every reachable state the atlas counter is within the capacity,
\* next_layer <= max_depth; no registration is performed beyond it.
C1_NextLayerWithinCapacity == next_layer <= max_depth

\* C2: every call of insert or fetch_or_add that returns a record returns a
\* layer below max_depth, that no other handle holds, and that is the layer
\* the handle already had if it had a record.
C2_LayerUniquePerHandle ==
    [][ (last_call'.info # None) =>
            LET id == last_call'.id
                layer == last_call'.info.layer
            IN  /\ layer < max_depth
                /\ \A other \in (DOMAIN infos') \ {id} : infos'[other].layer # layer
                /\ (id \in DOMAIN infos) => (infos[id].layer = layer) ]_vars

\* C3: while fewer than max_depth layers are taken no registration fails for
\* lack of capacity, and once max_depth layers are taken every registration
\* of a handle (by insert or by fetch_or_add) is fatal: no record is written
\* without the process aborting.
C3_RegistrationBeyondCapacityIsFatal ==
    [][ /\ (next_layer < max_depth) => (panic' # "insert: capacity")
        /\ (next_layer >= max_depth /\ infos' # infos) => (panic' # "none") ]_vars

\* C9: a record, once it exists, keeps its layer, width and height through
\* every later operation; fetch_or_add of a handle that has a record returns
\* that record and leaves next_layer as it is.
C9_RecordsNeverChange ==
    [][ /\ \A id \in DOMAIN infos : id \in DOMAIN infos' /\ infos'[id] = infos[id]
        /\ (last_call'.op = "update_texture" /\ last_call'.id \in DOMAIN infos) =>
               (last_call'.info = infos[last_call'.id] /\ next_layer' = next_layer) ]_vars

\* C10: a successful insert(w, h) writes layer next_layer at offset (0, 0),
\* advances next_layer by one and returns a handle that had no record before
\* the call and is now bound to that layer with size (w, h).
C10_InsertReturnsFreshHandle ==
    [][ (last_call'.op = "insert" /\ panic' = "none") =>
            LET id == last_call'.id IN
            /\ array' = Upload(0, 0, next_layer, last_call'.w, last_call'.h)
            /\ next_layer' = next_layer + 1
            /\ id \notin DOMAIN infos
            /\ infos'[id] = TextureInfoNew(next_layer, last_call'.w, last_call'.h) ]_vars

\* C11: every write of pixels into the atlas array is followed, within the
\* same operation, by a regeneration of the array's mip levels: after every
\* operation the mip levels are as new as the last write.
C11_MipmapsFollowEveryWrite == array.mipmaps

\* C15: every record has width <= max_width and height <= max_height, so
\* that neither uv scale exceeds 1; no operation records a larger image.
C15_RecordsFitTheLayer ==
    \A id \in DOMAIN infos :
        /\ infos[id].width <= max_width
        /\ infos[id].height <= max_height

\* C17: the number of records equals next_layer and the layers held by the
\* records are exactly 0 .. next_layer - 1.
C17_RecordsCountLayers ==
    /\ Cardinality(DOMAIN infos) = next_layer
    /\ {infos[id].layer : id \in DOMAIN infos} = 0..(next_layer - 1)

----------------------------------------------------------------------------
(* Properties of the frame builder, checked under SpecFrame. *)

Built == last_call.op = "upload_to_buffers"

IsMesh(prim) == prim.kind = "Mesh"

\* A mesh whose texture id has a record, and one whose id has none.
Drawn(prim) == IsMesh(prim) /\ prim.texture_id \in DOMAIN infos

Unknown(prim) == IsMesh(prim) /\ prim.texture_id \notin DOMAIN infos

\* v_1 + ... + v_(k-1) and i_1 + ... + i_(k-1) of a list of meshes.
RECURSIVE VerticesBefore(_, _)
VerticesBefore(meshes, k) ==
    IF k <= 1 THEN 0 ELSE VerticesBefore(meshes, k - 1) + Len(meshes[k - 1].vertices)

RECURSIVE IndicesBefore(_, _)
IndicesBefore(meshes, k) ==
    IF k <= 1 THEN 0 ELSE IndicesBefore(meshes, k - 1) + Len(meshes[k - 1].indices)

\* The vertices, and the indices, of the first k meshes of a list, in order.
RECURSIVE AllVertices(_, _)
AllVertices(meshes, k) ==
    IF k = 0 THEN <<>> ELSE AllVertices(meshes, k - 1) \o meshes[k].vertices

RECURSIVE AllIndices(_, _)
AllIndices(meshes, k) ==
    IF k = 0 THEN <<>> ELSE AllIndices(meshes, k - 1) \o meshes[k].indices

\* C4: a frame of N meshes whose texture ids all resolve gives N commands in
\* input order, the k-th with base_vertex = v_1 + ... + v_(k-1), first_index =
\* i_1 + ... + i_(k-1), count = i_k and instance_count = 1.
C4_CommandOffsetsArePrefixSums ==
    Built =>
        LET meshes == SelectSeq(last_call.prims, IsMesh) IN
        (\A k \in 1..Len(meshes) : Drawn(meshes[k])) =>
            /\ Len(commands) = Len(meshes)
            /\ last_call.count = Len(meshes)
            /\ \A k \in 1..Len(meshes) :
                  /\ commands[k].base_vertex = VerticesBefore(meshes, k)
                  /\ commands[k].first_index = IndicesBefore(meshes, k)
                  /\ commands[k].count = Len(meshes[k].indices)
                  /\ commands[k].instance_count = 1

\* Three resolved meshes of different sizes, the third after a triangle and a quad.
C4_Witness ==
    /\ Built
    /\ LET meshes == SelectSeq(last_call.prims, IsMesh) IN
          /\ Len(meshes) = 3
          /\ \A k \in 1..3 : Drawn(meshes[k])
          /\ Len(meshes[1].vertices) = 3
          /\ Len(meshes[2].vertices) = 4
    /\ Len(commands) = 3
    /\ commands[3].base_vertex = 7
    /\ commands[3].first_index = 9

\* C5: every scissor rectangle lies inside the framebuffer and has a
\* non-negative size.
C5_ScissorInsideFramebuffer ==
    \A k \in 1..Len(commands) :
        LET c == commands[k] IN
        /\ 0 <= c.scissor_x
        /\ 0 <= c.scissor_y
        /\ c.scissor_w >= 0
        /\ c.scissor_h >= 0
        /\ c.scissor_x + c.scissor_w <= screen_rect[1]
        /\ c.scissor_y + c.scissor_h <= screen_rect[2]

\* A frame holding a clip rectangle that reaches outside the framebuffer on
\* the min side, and one that is inverted in x and reaches outside in y.
C5_Witness ==
    /\ Built
    /\ \E j, k \in 1..Len(commands) :
          /\ SelectSeq(last_call.prims, Drawn)[j].clip_rect = <<-100, -100, 200, 200>>
          /\ SelectSeq(last_call.prims, Drawn)[k].clip_rect = <<181, 141, 21, 1301>>
          /\ commands[k].scissor_w = 0

\* C6: a mesh whose texture id has no record is dropped and the frame goes
\* on: nothing aborts, one warning is printed per such mesh, and the buffers
\* and the commands are those of the remaining meshes alone.
C6_UnknownTextureIsDropped ==
    Built =>
        LET kept == SelectSeq(last_call.prims, Drawn)
            dropped == SelectSeq(last_call.prims, Unknown)
        IN  /\ panic = "none"
            /\ warnings = Len(dropped)
            /\ \A k \in 1..Len(dropped) : Fetch(dropped[k].texture_id) = None
            /\ Len(commands) = Len(kept)
            /\ last_call.count = Len(kept)
            /\ vertices = AllVertices(kept, Len(kept))
            /\ elements = AllIndices(kept, Len(kept))
            /\ \A k \in 1..Len(kept) :
                  /\ commands[k].base_vertex = VerticesBefore(kept, k)
                  /\ commands[k].first_index = IndicesBefore(kept, k)
                  /\ commands[k].count = Len(kept[k].indices)

\* An unknown mesh first, then two meshes that are drawn.
C6_Witness ==
    /\ Built
    /\ Len(last_call.prims) = 3
    /\ Unknown(last_call.prims[1])
    /\ Drawn(last_call.prims[2])
    /\ Drawn(last_call.prims[3])
    /\ warnings = 1
    /\ Len(commands) = 2

\* The frame of the end-to-end scenario: a 16 x 16 atlas holding a 16 x 16 and
\* an 8 x 8 texture, and three meshes: one on each, one on an unregistered id.
C7_Scenario ==
    /\ Built
    /\ max_width = 16
    /\ max_height = 16
    /\ DOMAIN infos = {User(0), User(1)}
    /\ infos[User(0)] = TextureInfoNew(0, 16, 16)
    /\ infos[User(1)] = TextureInfoNew(1, 8, 8)
    /\ Len(last_call.prims) = 3
    /\ \A k \in 1..3 : IsMesh(last_call.prims[k])
    /\ last_call.prims[1].texture_id = User(0)
    /\ last_call.prims[2].texture_id = User(1)
    /\ last_call.prims[3].texture_id = Managed(0)

\* C7: every command carries the layer of its mesh's record and the uv scales
\* width / max_width and height / max_height; the scenario gives two commands
\* with uv scales (1, 1) and (1/2, 1/2).
C7_LayerAndUvScale ==
    /\ Built =>
          LET kept == SelectSeq(last_call.prims, Drawn) IN
          /\ Len(commands) = Len(kept)
          /\ \A k \in 1..Len(kept) :
                LET c == commands[k]
                    info == infos[kept[k].texture_id]
                IN  /\ c.texture_layer = info.layer
                    /\ c.uv_scale_x[2] > 0
                    /\ c.uv_scale_x[1] * max_width = c.uv_scale_x[2] * info.width
                    /\ c.uv_scale_y[2] > 0
                    /\ c.uv_scale_y[1] * max_height = c.uv_scale_y[2] * info.height
    /\ C7_Scenario =>
          /\ Len(commands) = 2
          /\ warnings = 1
          /\ commands[1].uv_scale_x = <<1, 1>> /\ commands[1].uv_scale_y = <<1, 1>>
          /\ commands[2].uv_scale_x = <<1, 2>> /\ commands[2].uv_scale_y = <<1, 2>>

C7_Witness == C7_Scenario /\ Len(commands) = 2

Min(a, b) == IF a <= b THEN a ELSE b

Abs(a) == IF a < 0 THEN -a ELSE a

\* The whole number nearest to v half-pixels, the one farther from zero when
\* two are as near.
NearestWhole(v) ==
    CHOOSE n \in ((v \div 2) - 1)..((v \div 2) + 1) :
        IF v % 2 = 0 THEN 2 * n = v ELSE Abs(2 * n - v) = 1 /\ 2 * Abs(n) > Abs(v)

\* C8 as claimed: the scissor is the clip rectangle itself clamped to the
\* framebuffer and flipped in y (all lengths doubled, the clip rectangle
\* being in half pixels).
C8_ScissorIsClampedClip ==
    Built =>
        LET kept == SelectSeq(last_call.prims, Drawn)
            w2 == 2 * screen_rect[1]
            h2 == 2 * screen_rect[2]
        IN  /\ Len(commands) = Len(kept)
            /\ \A k \in 1..Len(kept) :
                  LET c == commands[k]
                      r == kept[k].clip_rect
                      cmin_x == Max(0, Min(r[1], w2))
                      cmin_y == Max(0, Min(r[2], h2))
                      cmax_x == Max(cmin_x, Min(r[3], w2))
                      cmax_y == Max(cmin_y, Min(r[4], h2))
                  IN  /\ 2 * c.scissor_x = cmin_x
                      /\ 2 * c.scissor_y = h2 - cmax_y
                      /\ 2 * c.scissor_w = cmax_x - cmin_x
                      /\ 2 * c.scissor_h = cmax_y - cmin_y

\* C8, amended: the scissor is the clip rectangle with every coordinate
\* rounded to the nearest whole pixel, then clamped to the framebuffer and
\* flipped in y; 800 x 600 and (-50,-50)-(100,100) give (0, 500, 100, 100).
C8_ScissorIsRoundedClampedClip ==
    Built =>
        LET kept == SelectSeq(last_call.prims, Drawn)
            w == screen_rect[1]
            h == screen_rect[2]
        IN  /\ Len(commands) = Len(kept)
            /\ \A k \in 1..Len(kept) :
                  LET c == commands[k]
                      r == kept[k].clip_rect
                      cmin_x == Max(0, Min(NearestWhole(r[1]), w))
                      cmin_y == Max(0, Min(NearestWhole(r[2]), h))
                      cmax_x == Max(cmin_x, Min(NearestWhole(r[3]), w))
                      cmax_y == Max(cmin_y, Min(NearestWhole(r[4]), h))
                  IN  /\ c.scissor_x = cmin_x
                      /\ c.scissor_y = h - cmax_y
                      /\ c.scissor_w = cmax_x - cmin_x
                      /\ c.scissor_h = cmax_y - cmin_y
                      /\ (screen_rect = <<800, 600>> /\ r = <<-100, -100, 200, 200>>) =>
                             /\ c.scissor_x = 0
                             /\ c.scissor_y = 500
                             /\ c.scissor_w = 100
                             /\ c.scissor_h = 100

\* 800 x 600: the command of (-50,-50)-(100,100), and the command of the
\* rectangle with fractional coordinates.
C8_Witness ==
    /\ Built
    /\ screen_rect = <<800, 600>>
    /\ Len(commands) = 2
    /\ SelectSeq(last_call.prims, Drawn)[1].clip_rect = <<-100, -100, 200, 200>>
    /\ commands[1].scissor_y = 500
    /\ SelectSeq(last_call.prims, Drawn)[2].clip_rect = <<181, 141, 21, 1301>>
    /\ commands[2].scissor_x = 91
    /\ commands[2].scissor_h = 529

----------------------------------------------------------------------------
(* Properties of a rendered frame, checked under SpecRender. *)

\* The step is a call of render_mdi.
RenderMdiStep == last_call.op # "render_mdi" /\ last_call'.op = "render_mdi"

Rendered == last_call.op = "render_mdi"

\* C12: render turns face culling and depth testing off for the draw call
\* only: whatever the two flags were when render was called, enabled or
\* disabled, they are the same when it returns.
C12_FlagsRestoredAfterRender ==
    [][ RenderMdiStep =>
            /\ ~draws'[1].cull_face
            /\ ~draws'[1].depth_test
            /\ gl_state'.cull_face = gl_state.cull_face
            /\ gl_state'.depth_test = gl_state.depth_test ]_vars

\* C13: a rendered frame issues exactly one MultiDrawElementsIndirect, with
\* the three buffers holding the frame's vertices, indices and commands, and
\* its draw count is the number of commands, which is the number of meshes
\* whose texture id resolved; a frame without commands does the same with
\* draw count 0 and no panic.
C13_OneMultiDrawPerFrame ==
    Rendered =>
        /\ panic = "none"
        /\ Len(draws) = 1
        /\ draws[1].call = "MultiDrawElementsIndirect"
        /\ draws[1].drawcount = Len(commands)
        /\ draws[1].drawcount = last_call.count
        /\ draws[1].drawcount = Len(SelectSeq(last_call.prims, Drawn))
        /\ draws[1].vertices = vertices
        /\ draws[1].elements = elements
        /\ draws[1].commands = commands

\* A frame of two meshes, one dropped as unknown: one draw of one command.
C13_Witness ==
    /\ Rendered
    /\ Len(last_call.prims) = 2
    /\ Unknown(last_call.prims[1])
    /\ Drawn(last_call.prims[2])
    /\ draws[1].drawcount = 1
    /\ Len(draws[1].elements) > 1

DeltaIdsOf(deltas) == {deltas[i].id : i \in 1..Len(deltas)}

\* C14: the texture deltas of a frame are applied before its meshes are
\* resolved: every handle carried by a delta of the frame has a record when
\* the frame is built, and every mesh of the frame whose handle had a record
\* before the frame or is carried by one of its deltas gets its command, with
\* the layer of the record.
C14_DeltasAppliedBeforeMeshes ==
    [][ RenderMdiStep =>
            LET ids == DeltaIdsOf(last_call'.deltas)
                Resolved(prim) == IsMesh(prim) /\ prim.texture_id \in (DOMAIN infos) \cup ids
                meshes == SelectSeq(last_call'.prims, Resolved)
            IN  /\ ids \subseteq DOMAIN infos'
                /\ Len(commands') = Len(meshes)
                /\ \A k \in 1..Len(meshes) :
                      /\ commands'[k].count = Len(meshes[k].indices)
                      /\ commands'[k].texture_layer = infos'[meshes[k].texture_id].layer ]_vars

\* A frame whose delta introduces Managed(0), no insertion having come
\* before, and whose mesh on Managed(0) is drawn.
C14_Witness ==
    /\ Rendered
    /\ Len(last_call.deltas) = 1
    /\ DOMAIN infos = {Managed(0)}
    /\ Len(last_call.prims) = 1
    /\ IsMesh(last_call.prims[1])
    /\ last_call.prims[1].texture_id = Managed(0)
    /\ Len(commands) = 1
    /\ warnings = 0

\* C18: for the same pool, window size and primitive list, render_simple
\* issues one DrawElements per command of render_mdi, in the same order,
\* skipping the same meshes, and the texLayer and uvScale uniforms and the
\* scissor box of each draw equal the texture layer, uv scales and scissor
\* rectangle of the command.  (In SpecRender render_simple runs on the frame
\* render_mdi has just rendered, so commands holds the batched result.)
C18_PathsAgreePerDraw ==
    (last_call.op = "render_simple") =>
        LET kept == SelectSeq(last_call.prims, Drawn)
        IN  /\ Len(draws) = Len(commands)
            /\ Len(draws) = Len(kept)
            /\ warnings = Len(SelectSeq(last_call.prims, Unknown))
            /\ \A k \in 1..Len(draws) :
                  /\ draws[k].call = "DrawElements"
                  /\ draws[k].count = commands[k].count
                  /\ draws[k].elements = kept[k].indices
                  /\ draws[k].vertices = kept[k].vertices
                  /\ draws[k].texLayer = commands[k].texture_layer
                  /\ draws[k].uvScale = <<commands[k].uv_scale_x, commands[k].uv_scale_y>>
                  /\ draws[k].scissor = <<commands[k].scissor_x, commands[k].scissor_y,
                                          commands[k].scissor_w, commands[k].scissor_h>>

\* Both paths skip the first mesh and draw the second, the quad, on an 8 x 4
\* image in a 16 x 16 atlas.
C18_Witness ==
    /\ last_call.op = "render_simple"
    /\ Len(last_call.prims) = 2
    /\ Unknown(last_call.prims[1])
    /\ Len(draws) = 1
    /\ draws[1].count = 6
    /\ draws[1].uvScale = <<F32Div(8, 16), F32Div(4, 16)>>
    /\ draws[1].scissor = <<91, 0, 0, 529>>

----------------------------------------------------------------------------
(* Properties of the running program, checked under SpecLoop. *)

\* The step is a callback that called MainLoop::handle_event.
HandledStep == polled' # polled /\ last_call'.op = "handle_event"

\* The step is the render of an iteration, and the step is a fixed-step update.
LoopRenderStep == pc = "update" /\ pc' = "loop"

LoopUpdateStep == t' # t

PointerKinds == {"MouseMove", "MousePress", "MouseRelease", "MouseScroll"}

\* C16: in every state screen_rect, which the frame builder clamps and flips
\* against, equals the width and height stored in the Window and the
\* screenSize uniform; a resize event sets it to the size the event carries,
\* and no other step (pointer, button, scroll and key events included)
\* changes it, so that it is the size of the most recent resize event, or
\* the initial window size.
C16_ScreenRectIsFramebufferSize ==
    [][ /\ screen_rect = window
        /\ uniforms.screenSize = window
        /\ screen_rect' = window'
        /\ uniforms'.screenSize = window'
        /\ IF HandledStep /\ last_call'.event.kind = "WindowResize"
           THEN screen_rect' = <<last_call'.event.w, last_call'.event.h>>
           ELSE screen_rect' = screen_rect ]_vars

\* A pointer move, then a resize to 640 x 480.
C16_Witness ==
    /\ polled = 2
    /\ mouse_pos = <<10, 20>>
    /\ last_call.op = "handle_event"
    /\ last_call.event = WindowResize(640, 480)
    /\ screen_rect = <<640, 480>>
    /\ window = <<640, 480>>
    /\ uniforms.screenSize = <<640, 480>>

\* C19: a pointer-move, button or scroll event handled by handle_event is
\* appended at the end of the input queue, as one egui event; render hands
\* the whole queue, in order, to the toolkit and leaves the queue empty, so
\* that no event is handed over twice; no other step (update, key and resize
\* events included) changes the queue.
C19_EventsReachOneFrame ==
    [][ /\ HandledStep =>
              IF last_call'.event.kind \in PointerKinds
              THEN /\ Len(events') = Len(events) + 1
                   /\ SubSeq(events', 1, Len(events)) = events
                   /\ events'[Len(events')].kind =
                         CASE last_call'.event.kind = "MouseMove" -> "PointerMoved"
                           [] last_call'.event.kind = "MouseScroll" -> "MouseWheel"
                           [] OTHER -> "PointerButton"
              ELSE events' = events
        /\ LoopRenderStep =>
              /\ last_call'.op = "render_mdi"
              /\ last_call'.input = events
              /\ events' = <<>>
        /\ LoopUpdateStep => (last_call'.op = "update" /\ events' = events)
        /\ (~HandledStep /\ ~LoopRenderStep) => events' = events ]_vars

\* A move and a press of the right button arrive in one poll; an update
\* runs; the render hands both to the toolkit, in that order.
C19_Witness ==
    /\ last_call.op = "render_mdi"
    /\ last_call.input = <<PointerMoved(<<10, 20>>),
                           PointerButton(<<10, 20>>, "Secondary", TRUE)>>
    /\ events = <<>>
    /\ t >= 1

\* C20: running, once false, stays false; it becomes false when a press of
\* Escape is handled and when poll_events finds the close flag set; with
\* running false no new iteration is entered: the iteration in progress goes
\* on through its updates and its render to the loop test, from where run
\* returns, and nothing happens after that.
C20_StopsAfterCurrentIteration ==
    [][ /\ ~running => ~running'
        /\ (HandledStep /\ last_call'.event = KeyPress("Escape")) => ~running'
        /\ (pc = "poll" /\ pc' = "update" /\ should_close) => ~running'
        /\ (~running /\ pc = "poll") => pc' \in {"poll", "update"}
        /\ (~running /\ pc = "update") => (LoopUpdateStep \/ LoopRenderStep)
        /\ (~running /\ pc = "loop") => pc' = "done"
        /\ pc # "done" ]_vars

\* Escape was pressed, the iteration ran an update and its render, and run
\* has returned.
C20_Witness ==
    /\ pc = "done"
    /\ ~running
    /\ ~should_close
    /\ t >= 1
    /\ last_call.op = "render_mdi"

====
